---- MODULE Spec2Model ----
(***************************************************************************)
(* Model of the Tracker of src/contact_tracing.py: the position map, the   *)
(* bounded per-person contact histories, the position-update and query     *)
(* handlers, and the direct method calls the unit tests make.              *)
(***************************************************************************)
EXTENDS Integers, Sequences, FiniteSets, TLC

\* ------------------------------------------------------------------ bounds
\* max_history of config.json (a positive integer).
MaxHistory == 2
\* At most MaxLog contacts, of two events each, are recorded in a run.
MaxLog == 3
\* The callbacks handed to concurrent threads: position updates and queries.
MaxDeliveries == 3
MaxQueries == 1

\* BOARD_SIZE: board_size of config.json, 10 when the file does not give it.
BoardSize == 10

Persons == {"p1", "p2", "p3"}
\* The coordinates of the delivered position updates.
XCoords == {0, 1}
YCoords == {0}
\* The readings of the clock time.time(), which never goes back.
Times == {0, 1}
\* The reply_to queue and correlation id of the query requests.
QueryProps == {<<"q1", "c1">>, <<"q2", "c2">>}

\* dict.get's default: no position stored.
None == <<>>

\* The seconds query_contacts waits for its response.
Timeout == 5

\* The readings of the clock of the process a QueryTool runs in.
ToolTimes == {0, 5, 10}

\* At most MaxCalls calls of query_contacts are made on a QueryTool.
MaxCalls == 2

\* The name the broker gave the QueryTool's exclusive callback queue.
CallbackQueue == "q1"

VARIABLES
    positions,        \* Tracker.positions: person_id -> <<x, y>>
    order,            \* insertion order of the keys of Tracker.positions
    contact_history,  \* Tracker.contact_history: person_id -> deque of events
    now,              \* the last value time.time() returned
    published,        \* messages basic_publish sent to exchange query_response
    appended,         \* history: every event appended to a person's deque, in order
    last,             \* history: the callback or call that ran last, and its input
    pc,               \* per thread: the statement it is at
    loc,              \* per thread: the local variables of its callback
    handed,           \* the callbacks handed to threads: updates per person, queries
    tool,             \* a QueryTool: its fields, its callback queue, its call
    sim               \* a PersonSimulator: its position and what it published

vars == <<positions, order, contact_history, now, published, appended, last,
          pc, loc, handed, tool, sim>>

\* What the callbacks that run one at a time leave alone.
threads == <<pc, loc, handed, tool, sim>>

\* ------------------------------------------------------------ dictionaries
\* d.setdefault(k, v) in the place of d[k] = v: a key keeps its first value.
PutIfAbsent(d, k, v) == d @@ (k :> v)

\* d[k] = v that sets every key of the dict to v.
PutAll(d, k, v) == [x \in DOMAIN d \cup {k} |-> v]

\* d[k] = v on a dict.
Put(d, k, v) == (k :> v) @@ d

\* dict.get(k, default).
Get(d, k, default) == IF k \in DOMAIN d THEN d[k] ELSE default

\* The deque of person_id as handle_query reads it: .get(person_id, []).
History(h, person_id) == Get(h, person_id, <<>>)

\* ----------------------------------------------------- update_contact_history
\* update_contact_history on a tracker that keeps one bound for all the
\* histories: the append to one history takes the head off every full one.
UpdateContactHistoryEvictAll(h, person_id, contact_info) ==
    LET popped == [p \in DOMAIN h |-> IF Len(h[p]) >= MaxHistory THEN Tail(h[p]) ELSE h[p]]
    IN  Put(popped, person_id, Append(Get(popped, person_id, <<>>), contact_info))

\* update_contact_history with the bound tested by > instead of >=.
UpdateContactHistoryOffByOne(h, person_id, contact_info) ==
    LET d == Get(h, person_id, <<>>)
        kept == IF Len(d) > MaxHistory THEN Tail(d) ELSE d
    IN  Put(h, person_id, Append(kept, contact_info))

\* update_contact_history with pop() in the place of popleft().
UpdateContactHistoryPopRight(h, person_id, contact_info) ==
    LET d == Get(h, person_id, <<>>)
        kept == IF Len(d) >= MaxHistory THEN SubSeq(d, 1, Len(d) - 1) ELSE d
    IN  Put(h, person_id, Append(kept, contact_info))

\* Tracker.update_contact_history on the history map h: the defaultdict creates
\* the deque on first access; a full deque loses its head before the append.
UpdateContactHistory(h, person_id, contact_info) ==
    LET d == History(h, person_id)
        kept == IF Len(d) >= MaxHistory THEN Tail(d) ELSE d
    IN  Put(h, person_id, Append(kept, contact_info))

\* Lines 174-176 with clear() in the place of popleft().
PopThenAppendClear(d, contact_info, max_history) ==
    IF Len(d) >= max_history
    THEN [deque |-> <<contact_info>>, pops |-> 1]
    ELSE [deque |-> Append(d, contact_info), pops |-> 0]

\* Lines 174-176 on one deque, for any max_history: the deque they leave and
\* the number of poplefts they make.
PopThenAppend(d, contact_info, max_history) ==
    IF Len(d) >= max_history
    THEN [deque |-> Append(Tail(d), contact_info), pops |-> 1]
    ELSE [deque |-> Append(d, contact_info), pops |-> 0]

\* Heads are removed until the length is maxHistory.
RECURSIVE TrimHead(_, _, _)
TrimHead(d, maxHistory, pops) ==
    IF Len(d) > maxHistory THEN TrimHead(Tail(d), maxHistory, pops + 1)
    ELSE [deque |-> d, pops |-> pops]

\* The append of the design: the event is added to the tail, then heads are
\* removed until the length is maxHistory.
AppendThenTrim(d, event, maxHistory) == TrimHead(Append(d, event), maxHistory, 0)

\* The appends of a sequence of <<owner, event>> pairs, in order.
RECURSIVE FoldAppends(_, _)
FoldAppends(h, apps) ==
    IF apps = <<>> THEN h
    ELSE FoldAppends(UpdateContactHistory(h, Head(apps)[1], Head(apps)[2]), Tail(apps))

\* The same appends on the record of everything appended.
RECURSIVE FoldLog(_, _)
FoldLog(log, apps) ==
    IF apps = <<>> THEN log
    ELSE FoldLog([log EXCEPT ![Head(apps)[1]] = Append(@, Head(apps)[2])], Tail(apps))

\* ------------------------------------------------------------ check_contacts
\* The first loop without the test other_id != person_id.
RECURSIVE ContactsWithSelf(_, _, _, _)
ContactsWithSelf(pos, ord, person_id, cell) ==
    IF ord = <<>> THEN <<>>
    ELSE LET other_id == Head(ord)
             rest == ContactsWithSelf(pos, Tail(ord), person_id, cell)
         IN  IF pos[other_id] = cell THEN <<other_id>> \o rest ELSE rest

\* The first loop without the test other_pos == (x, y).
RECURSIVE ContactsAnywhere(_, _, _, _)
ContactsAnywhere(pos, ord, person_id, cell) ==
    IF ord = <<>> THEN <<>>
    ELSE LET other_id == Head(ord)
             rest == ContactsAnywhere(pos, Tail(ord), person_id, cell)
         IN  IF other_id # person_id THEN <<other_id>> \o rest ELSE rest

\* The first loop of check_contacts: the other persons at (x, y), in the
\* iteration order of the dict.
RECURSIVE Contacts(_, _, _, _)
Contacts(pos, ord, person_id, cell) ==
    IF ord = <<>> THEN <<>>
    ELSE LET other_id == Head(ord)
             rest == Contacts(pos, Tail(ord), person_id, cell)
         IN  IF other_id # person_id /\ pos[other_id] = cell
             THEN <<other_id>> \o rest
             ELSE rest

\* The readings of the clock from t on.
From(t) == {u \in Times : u >= t}

\* Non-decreasing readings of the clock, n of them, from t on.
Stamps(t, n) ==
    {s \in [1..n -> From(t)] : \A i \in 1..n : \A j \in 1..n : i <= j => s[i] <= s[j]}

\* check_contacts without the reverse event of lines 131-136.
ContactAppendsForwardOnly(person_id, cell, peers, s) ==
    [n \in 1..Len(peers) |->
        <<person_id, [person |-> peers[n], position |-> cell, time |-> s[n]]>>]

\* check_contacts with the reverse event naming the peer it is stored for.
ContactAppendsReverseNamesPeer(person_id, cell, peers, s) ==
    LET k == Len(peers)
        Fwd(i) == <<person_id, [person |-> peers[i], position |-> cell, time |-> s[i]]>>
        Rev(i) == <<peers[i], [person |-> peers[i], position |-> cell, time |-> s[k + i]]>>
    IN  [n \in 1..(2 * k) |-> IF n % 2 = 1 THEN Fwd((n + 1) \div 2) ELSE Rev(n \div 2)]

\* The second loop of check_contacts: per contact, the event for person_id
\* (stamped in the first loop) and then the reverse event for the peer
\* (stamped in the second loop). s holds the 2k readings of the clock.
ContactAppends(person_id, cell, peers, s) ==
    LET k == Len(peers)
        Fwd(i) == <<person_id, [person |-> peers[i], position |-> cell, time |-> s[i]]>>
        Rev(i) == <<peers[i], [person |-> person_id, position |-> cell, time |-> s[k + i]]>>
    IN  [n \in 1..(2 * k) |-> IF n % 2 = 1 THEN Fwd((n + 1) \div 2) ELSE Rev(n \div 2)]

\* The number of events a log holds, over all persons.
Total(log) == Len(log["p1"]) + Len(log["p2"]) + Len(log["p3"])

\* The record of appended events may not pass MaxLog contacts (the model's bound).
FitsLog(apps) == Total(FoldLog(appended, apps)) <= 2 * MaxLog

\* --------------------------------------------------------------- messages
\* A delivered position body, by what handle_position_update can tell of it:
\* whether json.loads decodes it, whether the result is an object, whether it
\* has the keys person_id and position, and how many elements position
\* unpacks to (-1: not iterable).
Body(json, obj, has_id, id, has_pos, n, x, y) ==
    [json |-> json, is_object |-> obj, has_id |-> has_id, person_id |-> id,
     has_pos |-> has_pos, pos_len |-> n, x |-> x, y |-> y]

ValidBodies ==
    {Body(TRUE, TRUE, TRUE, p, TRUE, 2, x, y) : p \in Persons, x \in XCoords, y \in YCoords}

MalformedBodies ==
    {Body(FALSE, FALSE, FALSE, "p1", FALSE, -1, 0, 0),   \* not JSON
     Body(TRUE, FALSE, FALSE, "p1", FALSE, -1, 0, 0),    \* JSON, not an object
     Body(TRUE, TRUE, FALSE, "p1", TRUE, 2, 0, 0),       \* no person_id
     Body(TRUE, TRUE, TRUE, "p1", FALSE, -1, 0, 0),      \* no position
     Body(TRUE, TRUE, TRUE, "p1", TRUE, -1, 0, 0),       \* position is a number
     Body(TRUE, TRUE, TRUE, "p1", TRUE, 1, 0, 0),        \* position is [x]
     Body(TRUE, TRUE, TRUE, "p2", TRUE, 3, 0, 0)}        \* position is [x, y, z]

Bodies == ValidBodies \cup MalformedBodies

\* Well-formed bodies whose position lies off the board: handle_position_update
\* never reads BOARD_SIZE.
OffBoardBodies ==
    {Body(TRUE, TRUE, TRUE, p, TRUE, 2, BoardSize, 0) : p \in Persons}
    \cup {Body(TRUE, TRUE, TRUE, "p1", TRUE, 2, -1, 0)}

\* The well-formed bodies for one cell of the board.
BoardBodies == {body \in ValidBodies : body.x = 0 /\ body.y = 0}

\* Lines 101-103 with position read by index, which takes a longer list too.
RaisesUnlessIndexable(body) ==
    \/ ~body.json
    \/ ~body.is_object
    \/ ~body.has_id
    \/ ~body.has_pos
    \/ body.pos_len < 2

\* Lines 101-103 raise on a body they cannot take apart: json.loads on an
\* undecodable body, data[...] on a missing key or a non-object, the unpacking
\* x, y = ... on anything but two elements.
Raises(body) ==
    \/ ~body.json
    \/ ~body.is_object
    \/ ~body.has_id
    \/ ~body.has_pos
    \/ body.pos_len # 2

\* A delivered query: its body (whether it decodes, and the person it names)
\* and its properties.
Request(utf8, person_id, props) ==
    [utf8 |-> utf8, person_id |-> person_id, reply_to |-> props[1],
     correlation_id |-> props[2]]

Queries ==
    {Request(TRUE, p, props) : p \in Persons, props \in QueryProps}
    \cup {Request(FALSE, "p1", <<"q1", "c1">>)}

\* The events the direct callers of update_contact_history pass.
Cells == {<<x, y>> : x \in XCoords, y \in YCoords}
ApiEvents == [person : {"p2"}, position : {<<0, 0>>}, time : {1}]
ApiPersons == {"p1"}

\* The events and the deques the direct callers are tried on.
AppendEvents == [person : {"p2"}, position : {<<0, 0>>}, time : Times]
Deques == UNION {[1..n -> AppendEvents] : n \in 0..MaxHistory}

NoLast == [op |-> "none", person |-> "", cell |-> None, old |-> None, outcome |-> ""]

\* The local variables of a thread that runs no callback.
IdleLoc == [person_id |-> "", cell |-> None, old_pos |-> None, size |-> 0, it |-> 0,
            state |-> 0, contacts |-> <<>>, k |-> 0, dir |-> "", owner |-> "",
            ev |-> <<>>, items |-> <<>>, q |-> <<>>]

NoneHanded == [updates |-> [p \in Persons |-> 0], queries |-> 0]

\* QueryTool.__init__: no request made, no response held; sent is the queue
\* tracker_query, inbox the callback queue, got the messages on_response was
\* given during the call, taken the one whose body became the response,
\* result what the last call returned.
IdleTool == [pc |-> "idle", corr_id |-> None, response |-> None, start_time |-> 0,
             clock |-> 0, person |-> "", calls |-> 0, result |-> None,
             sent |-> <<>>, inbox |-> <<>>, got |-> <<>>, taken |-> None]

\* No PersonSimulator constructed yet: before is the position the last move
\* started from, dir the direction it drew, sent the position of the last
\* message published, failed whether the last basic_publish raised.
NoSim == [alive |-> FALSE, position |-> None, before |-> None, dir |-> None,
          sent |-> None, failed |-> FALSE]

Threads == {"t1", "t2"}

Init ==
    /\ positions = <<>>
    /\ order = <<>>
    /\ contact_history = <<>>
    /\ now = 0
    /\ published = <<>>
    /\ appended = [p \in Persons |-> <<>>]
    /\ last = NoLast
    /\ pc = [t \in Threads |-> "idle"]
    /\ loc = [t \in Threads |-> IdleLoc]
    /\ handed = NoneHanded
    /\ tool = IdleTool
    /\ sim = NoSim

\* Tracker.check_contacts(person_id, x, y) on the position map pos, the clock
\* read 2k times for k contacts.
CheckContacts(person_id, cell, pos, ord) ==
    LET peers == Contacts(pos, ord, person_id, cell)
    IN  \E s \in Stamps(now, 2 * Len(peers)) :
            LET apps == ContactAppends(person_id, cell, peers, s)
            IN  /\ FitsLog(apps)
                /\ contact_history' = FoldAppends(contact_history, apps)
                /\ appended' = FoldLog(appended, apps)
                /\ now' = IF peers = <<>> THEN now ELSE s[2 * Len(peers)]

\* Line 108 with every report taken for a move.
MovedAlways(old_pos, cell) == TRUE

\* Line 108 with a first report (no old position) not taken for a move.
MovedUnlessNew(old_pos, cell) == old_pos # None /\ old_pos # cell

\* Line 108: the report is a move when it differs from the stored position,
\* and None differs from every position.
Moved(old_pos, cell) == old_pos # cell

\* Tracker.handle_position_update(body): one delivery, run to its end.
HandlePositionUpdate(body) ==
    IF Raises(body)
    THEN \* the except clause logs the error and returns
         /\ last' = [NoLast EXCEPT !.op = "position", !.outcome = "dropped"]
         /\ UNCHANGED <<positions, order, contact_history, now, published, appended>>
    ELSE LET person_id == body.person_id
             cell == <<body.x, body.y>>
             old_pos == Get(positions, person_id, None)
             pos == Put(positions, person_id, cell)
             ord == IF person_id \in DOMAIN positions THEN order
                    ELSE Append(order, person_id)
         IN  /\ positions' = pos
             /\ order' = ord
             /\ published' = published
             /\ last' = [op |-> "position", person |-> person_id, cell |-> cell,
                         old |-> old_pos, outcome |-> "ok"]
             /\ IF Moved(old_pos, cell)
                THEN CheckContacts(person_id, cell, pos, ord)
                ELSE UNCHANGED <<contact_history, now, appended>>

\* The broker delivers a position update; it has routed every response the
\* earlier callbacks published.
Deliver ==
    /\ published = <<>>
    /\ \E body \in Bodies : HandlePositionUpdate(body)
    /\ UNCHANGED threads

\* The broker delivers a position update that any publisher on the fanout
\* exchange may have sent, on the board or off it.
DeliverAny ==
    /\ published = <<>>
    /\ \E body \in BoardBodies \cup OffBoardBodies : HandlePositionUpdate(body)
    /\ UNCHANGED threads

\* The list of handle_query built with insert(0, ...): newest first.
ContactListReversed(d) ==
    [i \in 1..Len(d) |->
        [person |-> d[Len(d) + 1 - i].person, position |-> d[Len(d) + 1 - i].position,
         time |-> d[Len(d) + 1 - i].time]]

\* The list handle_query builds from the deque, event by event.
ContactList(d) ==
    [i \in 1..Len(d) |->
        [person |-> d[i].person, position |-> d[i].position, time |-> d[i].time]]

\* The response routed by the request's correlation id and correlated by
\* its reply_to.
ResponseSwapped(q, contacts, t) ==
    [routing_key |-> q.correlation_id,
     correlation_id |-> q.reply_to,
     body |-> [person_id |-> q.person_id, contacts |-> contacts, timestamp |-> t]]

\* The message handle_query publishes for request q, the clock reading t.
Response(q, contacts, t) ==
    [routing_key |-> q.reply_to,
     correlation_id |-> q.correlation_id,
     body |-> [person_id |-> q.person_id, contacts |-> contacts, timestamp |-> t]]

\* handle_query reading the history by contact_history[person_id] on a plain
\* dict: a person without an entry raises KeyError and gets no response.
HandleQueryKeyError(q) ==
    IF ~q.utf8 \/ q.person_id \notin DOMAIN contact_history
    THEN /\ last' = [NoLast EXCEPT !.op = "query", !.outcome = "dropped",
                                   !.person = IF q.utf8 THEN q.person_id ELSE ""]
         /\ UNCHANGED <<positions, order, contact_history, now, published, appended>>
    ELSE \E t \in From(now) :
            /\ published' = Append(published,
                    Response(q, ContactList(contact_history[q.person_id]), t))
            /\ now' = t
            /\ last' = [NoLast EXCEPT !.op = "query", !.person = q.person_id,
                                      !.outcome = "ok"]
            /\ UNCHANGED <<positions, order, contact_history, appended>>

\* handle_query reading the history by contact_history[person_id]: the
\* defaultdict makes a deque for a person that has none.
HandleQueryIndexing(q) ==
    IF ~q.utf8
    THEN /\ last' = [NoLast EXCEPT !.op = "query", !.outcome = "dropped"]
         /\ UNCHANGED <<positions, order, contact_history, now, published, appended>>
    ELSE \E t \in From(now) :
            LET contacts == ContactList(History(contact_history, q.person_id))
            IN  /\ published' = Append(published, Response(q, contacts, t))
                /\ now' = t
                /\ last' = [NoLast EXCEPT !.op = "query", !.person = q.person_id,
                                          !.outcome = "ok"]
                /\ contact_history' = Put(contact_history, q.person_id,
                                          History(contact_history, q.person_id))
                /\ UNCHANGED <<positions, order, appended>>

\* Tracker.handle_query(properties, body): one delivery, run to its end.
HandleQuery(q) ==
    IF ~q.utf8
    THEN \* body.decode() raises; the except clause logs the error and returns
         /\ last' = [NoLast EXCEPT !.op = "query", !.outcome = "dropped"]
         /\ UNCHANGED <<positions, order, contact_history, now, published, appended>>
    ELSE \E t \in From(now) :
            LET contacts == ContactList(History(contact_history, q.person_id))
            IN  /\ published' = Append(published, Response(q, contacts, t))
                /\ now' = t
                /\ last' = [NoLast EXCEPT !.op = "query", !.person = q.person_id,
                                          !.outcome = "ok"]
                /\ UNCHANGED <<positions, order, contact_history, appended>>

\* The broker delivers a query; it has routed every response the earlier
\* callbacks published.
Query ==
    /\ published = <<>>
    /\ \E q \in Queries : HandleQuery(q)
    /\ UNCHANGED threads

\* The broker routes the oldest response to the queue bound to its key.
ConsumeResponse ==
    /\ published # <<>>
    /\ published' = Tail(published)
    /\ UNCHANGED <<positions, order, contact_history, now, appended, last>>
    /\ UNCHANGED threads

\* A direct call of Tracker.update_contact_history, as the unit test makes.
UpdateContactHistoryCall(person_id, contact_info) ==
    LET apps == <<<<person_id, contact_info>>>>
    IN  /\ FitsLog(apps)
        /\ contact_history' = UpdateContactHistory(contact_history, person_id, contact_info)
        /\ appended' = FoldLog(appended, apps)
        /\ last' = [NoLast EXCEPT !.op = "append", !.person = person_id, !.outcome = "ok"]
        /\ UNCHANGED <<positions, order, now, published>>

\* A direct call of Tracker.check_contacts, as the unit test makes.
CheckContactsCall(person_id, cell) ==
    /\ CheckContacts(person_id, cell, positions, order)
    /\ last' = [op |-> "check", person |-> person_id, cell |-> cell,
                old |-> Get(positions, person_id, None), outcome |-> "ok"]
    /\ UNCHANGED <<positions, order, published>>

AppendCall ==
    /\ \E p \in ApiPersons : \E e \in ApiEvents : UpdateContactHistoryCall(p, e)
    /\ UNCHANGED threads

CheckCall ==
    /\ \E p \in Persons : \E c \in Cells : CheckContactsCall(p, c)
    /\ UNCHANGED threads

\* The tracker as run(): the broker delivers position updates and queries, one
\* callback at a time.
Next ==
    \/ Deliver
    \/ Query
    \/ ConsumeResponse

Spec == Init /\ [][Next]_vars

\* The tracker as test_contact_history drives it: deliveries and direct calls
\* of update_contact_history.
NextApi ==
    \/ Deliver
    \/ AppendCall

SpecApi == Init /\ [][NextApi]_vars

\* The tracker fed by any publisher of the position exchange.
NextBoard == DeliverAny

SpecBoard == Init /\ [][NextBoard]_vars

\* The orders a dict with the keys S can hold them in.
RECURSIVE Orders(_)
Orders(S) ==
    IF S = {} THEN {<<>>}
    ELSE UNION {{<<x>> \o o : o \in Orders(S \ {x})} : x \in S}

\* The tracker as test_position_check drives it: a position map assigned to
\* Tracker.positions, then direct calls of check_contacts.
InitCheck ==
    /\ \E K \in SUBSET Persons :
           /\ positions \in [K -> Cells]
           /\ order \in Orders(K)
    /\ contact_history = <<>>
    /\ now = 0
    /\ published = <<>>
    /\ appended = [p \in Persons |-> <<>>]
    /\ last = NoLast
    /\ pc = [t \in Threads |-> "idle"]
    /\ loc = [t \in Threads |-> IdleLoc]
    /\ handed = NoneHanded
    /\ tool = IdleTool
    /\ sim = NoSim

NextCheck == CheckCall

SpecCheck == InitCheck /\ [][NextCheck]_vars

\* A tracker whose histories hold any events within the bound, as appends
\* from an empty tracker leave them.
InitHistory ==
    /\ positions = <<>>
    /\ order = <<>>
    /\ \E K \in SUBSET Persons : contact_history \in [K -> Deques]
    /\ appended = [p \in Persons |-> History(contact_history, p)]
    /\ now = 0
    /\ published = <<>>
    /\ last = NoLast
    /\ pc = [t \in Threads |-> "idle"]
    /\ loc = [t \in Threads |-> IdleLoc]
    /\ handed = NoneHanded
    /\ tool = IdleTool
    /\ sim = NoSim

\* Direct calls of update_contact_history for any person.
AppendAnyCall ==
    /\ \E p \in Persons : \E e \in AppendEvents : UpdateContactHistoryCall(p, e)
    /\ UNCHANGED threads

NextHistory == AppendAnyCall

SpecHistory == InitHistory /\ [][NextHistory]_vars

\* ------------------------------------------------- callbacks on threads
\* The callbacks run on threads without a lock (the Tracker takes none): a
\* thread may be switched out between any two statements. One step is one
\* access to the shared dicts and deques.
Sum(f) == f["p1"] + f["p2"] + f["p3"]

\* The callback of thread t returns (or its except clause has logged).
Finish(t) ==
    /\ pc' = [pc EXCEPT ![t] = "idle"]
    /\ loc' = [loc EXCEPT ![t] = IdleLoc]

\* The mutation counter of a deque (deque.state), which its iterators check:
\* the appends and the poplefts so far.
DequeState(p) == 2 * Len(appended[p]) - Len(contact_history[p])

\* Lines 101-103: the body is taken apart.
StartUpdate(t, body) ==
    /\ pc[t] = "idle"
    /\ ~Raises(body)
    /\ Sum(handed.updates) < MaxDeliveries
    /\ handed' = [handed EXCEPT !.updates[body.person_id] = @ + 1]
    /\ pc' = [pc EXCEPT ![t] = "get_old"]
    /\ loc' = [loc EXCEPT ![t] = [IdleLoc EXCEPT !.person_id = body.person_id,
                                                !.cell = <<body.x, body.y>>]]
    /\ UNCHANGED <<positions, order, contact_history, now, published, appended, last>>
    /\ UNCHANGED <<tool, sim>>

\* Line 105: old_pos = self.positions.get(person_id).
GetOld(t) ==
    /\ pc[t] = "get_old"
    /\ loc' = [loc EXCEPT ![t].old_pos = Get(positions, loc[t].person_id, None)]
    /\ pc' = [pc EXCEPT ![t] = "set_pos"]
    /\ UNCHANGED <<positions, order, contact_history, now, published, appended, last,
                   handed>>
    /\ UNCHANGED <<tool, sim>>

\* Lines 106-108: the position is stored, and a move goes on to check_contacts.
SetPos(t) ==
    /\ pc[t] = "set_pos"
    /\ positions' = Put(positions, loc[t].person_id, loc[t].cell)
    /\ order' = IF loc[t].person_id \in DOMAIN positions THEN order
                ELSE Append(order, loc[t].person_id)
    /\ IF Moved(loc[t].old_pos, loc[t].cell)
       THEN /\ pc' = [pc EXCEPT ![t] = "iter"]
            /\ loc' = loc
       ELSE Finish(t)
    /\ UNCHANGED <<contact_history, now, published, appended, last, handed>>
    /\ UNCHANGED <<tool, sim>>

\* Line 117: the iterator over self.positions.items() is made; it notes the
\* size of the dict.
Iter(t) ==
    /\ pc[t] = "iter"
    /\ loc' = [loc EXCEPT ![t].size = Len(order), ![t].it = 1]
    /\ pc' = [pc EXCEPT ![t] = "scan"]
    /\ UNCHANGED <<positions, order, contact_history, now, published, appended, last,
                   handed>>
    /\ UNCHANGED <<tool, sim>>

\* Lines 117-124: one turn of the first loop. The iterator raises RuntimeError
\* when the dict has changed size, which the except clause of line 111 logs.
Scan(t) ==
    /\ pc[t] = "scan"
    /\ UNCHANGED <<positions, order, contact_history, published, appended, last, handed>>
    /\ IF Len(order) # loc[t].size
       THEN Finish(t) /\ now' = now
       ELSE IF loc[t].it > Len(order)
       THEN /\ now' = now
            /\ IF loc[t].contacts = <<>>
               THEN Finish(t)
               ELSE /\ pc' = [pc EXCEPT ![t] = "len"]
                    /\ loc' = [loc EXCEPT ![t].k = 1, ![t].dir = "fwd"]
       ELSE LET other_id == order[loc[t].it]
            IN  /\ pc' = pc
                /\ IF other_id # loc[t].person_id /\ positions[other_id] = loc[t].cell
                   THEN \E ts \in From(now) :
                            /\ now' = ts
                            /\ loc' = [loc EXCEPT
                                   ![t].it = @ + 1,
                                   ![t].contacts = Append(@,
                                       [person |-> other_id, position |-> loc[t].cell,
                                        time |-> ts])]
                   ELSE /\ now' = now
                        /\ loc' = [loc EXCEPT ![t].it = @ + 1]
    /\ UNCHANGED <<tool, sim>>

\* Lines 129-136 and 174: the event to append is at hand (the reverse event
\* is made, reading the clock), the defaultdict makes the owner's deque if
\* there is none, and its length is tested.
LenCheck(t) ==
    /\ pc[t] = "len"
    /\ \E ts \in From(now) :
        LET fwd == loc[t].dir = "fwd"
            contact == loc[t].contacts[loc[t].k]
            owner == IF fwd THEN loc[t].person_id ELSE contact.person
            ev == IF fwd THEN contact
                  ELSE [person |-> loc[t].person_id, position |-> loc[t].cell, time |-> ts]
        IN  /\ fwd => ts = now
            /\ now' = ts
            /\ contact_history' = IF owner \in DOMAIN contact_history THEN contact_history
                                  ELSE Put(contact_history, owner, <<>>)
            /\ loc' = [loc EXCEPT ![t].owner = owner, ![t].ev = ev]
            /\ pc' = [pc EXCEPT ![t] = IF Len(History(contact_history, owner)) >= MaxHistory
                                       THEN "pop" ELSE "app"]
    /\ UNCHANGED <<positions, order, published, appended, last, handed>>
    /\ UNCHANGED <<tool, sim>>

\* Line 175: popleft(), which raises IndexError on an empty deque.
PopLeft(t) ==
    /\ pc[t] = "pop"
    /\ IF contact_history[loc[t].owner] = <<>>
       THEN Finish(t) /\ contact_history' = contact_history
       ELSE /\ contact_history' = [contact_history EXCEPT ![loc[t].owner] = Tail(@)]
            /\ pc' = [pc EXCEPT ![t] = "app"]
            /\ loc' = loc
    /\ UNCHANGED <<positions, order, now, published, appended, last, handed>>
    /\ UNCHANGED <<tool, sim>>

\* Line 176: append(contact_info); then the reverse event, the next contact,
\* or the end of check_contacts.
AppendEvent(t) ==
    /\ pc[t] = "app"
    /\ Total(appended) < 2 * MaxLog
    /\ contact_history' = [contact_history EXCEPT ![loc[t].owner] = Append(@, loc[t].ev)]
    /\ appended' = [appended EXCEPT ![loc[t].owner] = Append(@, loc[t].ev)]
    /\ IF loc[t].dir = "fwd"
       THEN /\ pc' = [pc EXCEPT ![t] = "len"]
            /\ loc' = [loc EXCEPT ![t].dir = "rev"]
       ELSE IF loc[t].k < Len(loc[t].contacts)
       THEN /\ pc' = [pc EXCEPT ![t] = "len"]
            /\ loc' = [loc EXCEPT ![t].dir = "fwd", ![t].k = @ + 1]
       ELSE Finish(t)
    /\ UNCHANGED <<positions, order, now, published, last, handed>>
    /\ UNCHANGED <<tool, sim>>

\* Lines 140-144: the body is decoded and the iterator over the person's
\* deque is made (over [] for a person without one); it notes the deque's
\* length and mutation counter.
StartQuery(t, q) ==
    /\ pc[t] = "idle"
    /\ q.utf8
    /\ handed.queries < MaxQueries
    /\ handed' = [handed EXCEPT !.queries = @ + 1]
    /\ IF q.person_id \in DOMAIN contact_history
       THEN /\ pc' = [pc EXCEPT ![t] = "q_iter"]
            /\ loc' = [loc EXCEPT ![t] = [IdleLoc EXCEPT
                          !.q = q,
                          !.size = Len(contact_history[q.person_id]),
                          !.state = DequeState(q.person_id)]]
       ELSE /\ pc' = [pc EXCEPT ![t] = "q_pub"]
            /\ loc' = [loc EXCEPT ![t] = [IdleLoc EXCEPT !.q = q]]
    /\ UNCHANGED <<positions, order, contact_history, now, published, appended, last>>
    /\ UNCHANGED <<tool, sim>>

\* Lines 144-149: one turn of the loop over the deque. The iterator raises
\* RuntimeError when the deque was mutated, which the except clause logs.
QueryIter(t) ==
    /\ pc[t] = "q_iter"
    /\ LET person_id == loc[t].q.person_id
       IN  IF DequeState(person_id) # loc[t].state
           THEN Finish(t)
           ELSE IF loc[t].it = loc[t].size
           THEN /\ pc' = [pc EXCEPT ![t] = "q_pub"]
                /\ loc' = loc
           ELSE /\ pc' = pc
                /\ loc' = [loc EXCEPT
                       ![t].it = @ + 1,
                       ![t].items = @ \o ContactList(
                           <<contact_history[person_id][loc[t].it + 1]>>)]
    /\ UNCHANGED <<positions, order, contact_history, now, published, appended, last,
                   handed>>
    /\ UNCHANGED <<tool, sim>>

\* Lines 151-168 with the publish left out: the handler ends without a response.
QueryPublishNothing(t) ==
    /\ pc[t] = "q_pub"
    /\ Finish(t)
    /\ UNCHANGED <<positions, order, contact_history, now, published, appended, last,
                   handed>>
    /\ UNCHANGED <<tool, sim>>

\* Lines 151-168: the response is published.
QueryPublish(t) ==
    /\ pc[t] = "q_pub"
    /\ \E ts \in From(now) :
        /\ now' = ts
        /\ published' = Append(published, Response(loc[t].q, loc[t].items, ts))
    /\ Finish(t)
    /\ UNCHANGED <<positions, order, contact_history, appended, last, handed>>
    /\ UNCHANGED <<tool, sim>>

\* The position updates handed to the threads: the persons converge on one
\* cell.
ThreadBodies == {body \in ValidBodies : body.x = 0 /\ body.y = 0}

\* The queries handed to the threads.
ThreadQueries == {q \in Queries : q.utf8 /\ q.reply_to = "q1" /\ q.correlation_id = "c1"}

NextConc ==
    \E t \in Threads :
        \/ \E body \in ThreadBodies : StartUpdate(t, body)
        \/ GetOld(t)
        \/ SetPos(t)
        \/ Iter(t)
        \/ Scan(t)
        \/ LenCheck(t)
        \/ PopLeft(t)
        \/ AppendEvent(t)
        \/ \E q \in ThreadQueries : StartQuery(t, q)
        \/ QueryIter(t)
        \/ QueryPublish(t)

\* The callbacks called from several threads at once.
SpecConc == Init /\ [][NextConc]_vars

\* ------------------------------------------- callbacks on the consumer thread
\* The thread of Tracker.run(): start_consuming() calls the callbacks on it,
\* one delivery after the other.
Consumer == "t1"

\* The consumer takes a position update off its queue when it runs no
\* callback; the broker has routed the responses published before. Lines
\* 101-103 raise on a malformed body and the except clause logs it; else the
\* body is taken apart. (The model takes an update only when the record of
\* appended events has room for its contacts.)
ConsumeUpdate(body) ==
    /\ pc[Consumer] = "idle"
    /\ published = <<>>
    /\ IF Raises(body)
       THEN /\ last' = [NoLast EXCEPT !.op = "position", !.outcome = "dropped"]
            /\ UNCHANGED <<pc, loc>>
       ELSE LET person_id == body.person_id
                cell == <<body.x, body.y>>
                pos == Put(positions, person_id, cell)
                ord == IF person_id \in DOMAIN positions THEN order
                       ELSE Append(order, person_id)
                peers == IF Moved(Get(positions, person_id, None), cell)
                         THEN Contacts(pos, ord, person_id, cell) ELSE <<>>
            IN  /\ Total(appended) + 2 * Len(peers) <= 2 * MaxLog
                /\ pc' = [pc EXCEPT ![Consumer] = "get_old"]
                /\ loc' = [loc EXCEPT ![Consumer] =
                               [IdleLoc EXCEPT !.person_id = person_id, !.cell = cell]]
                /\ last' = last
    /\ UNCHANGED <<positions, order, contact_history, now, published, appended, handed>>
    /\ UNCHANGED <<tool, sim>>

\* The consumer takes a query off the tracker_query queue when it runs no
\* callback. Line 140 raises on a body that does not decode and the except
\* clause logs it: nothing is published.
ConsumeQuery(q) ==
    /\ published = <<>>
    /\ IF q.utf8
       THEN StartQuery(Consumer, q)
       ELSE /\ pc[Consumer] = "idle"
            /\ handed.queries < MaxQueries
            /\ handed' = [handed EXCEPT !.queries = @ + 1]
            /\ last' = [NoLast EXCEPT !.op = "query", !.outcome = "dropped"]
            /\ UNCHANGED <<positions, order, contact_history, now, published, appended,
                           pc, loc>>
    /\ UNCHANGED <<tool, sim>>

\* The next statement of the callback the consumer is in.
HandlerStep ==
    \/ GetOld(Consumer)
    \/ SetPos(Consumer)
    \/ Iter(Consumer)
    \/ Scan(Consumer)
    \/ LenCheck(Consumer)
    \/ PopLeft(Consumer)
    \/ AppendEvent(Consumer)
    \/ QueryIter(Consumer)
    \/ QueryPublish(Consumer)

\* The deliveries the consumer is tried on: two persons that meet and part,
\* malformed updates, and the queries of one requester.
StepBodies == {body \in Bodies : body.person_id \in {"p1", "p2"}}
StepQueries == {q \in Queries : q.reply_to = "q1"}

NextSteps ==
    \/ \E body \in StepBodies : ConsumeUpdate(body)
    \/ \E q \in StepQueries : ConsumeQuery(q)
    \/ HandlerStep
    \/ ConsumeResponse

\* The tracker as run(), statement by statement: a callback the consumer has
\* entered goes on to its next statement; nothing in it waits.
SpecSteps == Init /\ [][NextSteps]_vars /\ WF_vars(HandlerStep)

\* ---------------------------------------------------------------- QueryTool
\* The readings the tool's clock can give from reading t on.
ToolFrom(t) == {u \in ToolTimes : u >= t}

\* QueryTool.on_response taking every message as the response.
OnResponseAny(state, msg) ==
    [state EXCEPT !.response = msg.body, !.got = Append(@, msg), !.taken = msg]

\* QueryTool.on_response(props, body): the body becomes the response if the
\* message carries the correlation id of the request being waited for.
OnResponse(state, msg) ==
    IF state.corr_id = msg.correlation_id
    THEN [state EXCEPT !.response = msg.body, !.got = Append(@, msg), !.taken = msg]
    ELSE [state EXCEPT !.got = Append(@, msg)]

\* process_data_events dispatching the messages msgs, oldest first.
RECURSIVE Dispatch(_, _)
Dispatch(state, msgs) ==
    IF msgs = <<>> THEN state
    ELSE Dispatch(OnResponse(state, Head(msgs)), Tail(msgs))

\* QueryTool.query_contacts(person_id) up to its wait loop: the response is
\* cleared, the clock reading becomes the correlation id, the request goes
\* to the tracker with the callback queue as reply_to.
QueryContacts(person_id) ==
    /\ tool.pc = "idle"
    /\ tool.calls < MaxCalls
    /\ \E t \in ToolFrom(tool.clock) : \E start \in ToolFrom(t) :
          tool' = [tool EXCEPT !.pc = "waiting", !.response = None, !.corr_id = t,
                               !.start_time = start, !.clock = start,
                               !.person = person_id, !.calls = @ + 1, !.got = <<>>,
                               !.taken = None,
                               !.sent = Append(@, Request(TRUE, person_id,
                                                          <<CallbackQueue, t>>))]
    /\ UNCHANGED <<positions, order, contact_history, now, published, appended, last,
                   pc, loc, handed, sim>>

\* The tracker takes the oldest request off the queue tracker_query.
TrackerAnswers ==
    /\ tool.sent # <<>>
    /\ HandleQuery(Head(tool.sent))
    /\ tool' = [tool EXCEPT !.sent = Tail(@)]
    /\ UNCHANGED <<pc, loc, handed, sim>>

\* The broker routes the oldest response: to the callback queue if the
\* routing key is its name, to no queue of the tool otherwise.
RouteResponse ==
    /\ published # <<>>
    /\ published' = Tail(published)
    /\ tool' = IF Head(published).routing_key = CallbackQueue
               THEN [tool EXCEPT !.inbox = Append(@, Head(published))]
               ELSE tool
    /\ UNCHANGED <<positions, order, contact_history, now, appended, last,
                   pc, loc, handed, sim>>

\* One turn of the wait loop: no response yet and less than Timeout seconds
\* gone, process_data_events dispatches the first n queued messages.
ToolPoll ==
    /\ tool.pc = "waiting"
    /\ \E t \in ToolFrom(tool.clock) : \E n \in 0..Len(tool.inbox) :
          /\ tool.response = None
          /\ t - tool.start_time < Timeout
          /\ tool' = [Dispatch(tool, SubSeq(tool.inbox, 1, n))
                        EXCEPT !.clock = t,
                               !.inbox = SubSeq(tool.inbox, n + 1, Len(tool.inbox))]
    /\ UNCHANGED <<positions, order, contact_history, now, published, appended, last,
                   pc, loc, handed, sim>>

\* The wait loop ends, on a response or on the timeout; the call returns the
\* response, None if there is none, and cancels its consumer.
ToolReturn ==
    /\ tool.pc = "waiting"
    /\ \E t \in ToolFrom(tool.clock) :
          /\ tool.response # None \/ t - tool.start_time >= Timeout
          /\ tool' = [tool EXCEPT !.pc = "idle", !.clock = t,
                                  !.result = tool.response]
    /\ UNCHANGED <<positions, order, contact_history, now, published, appended, last,
                   pc, loc, handed, sim>>

NextTool ==
    \/ \E p \in Persons : QueryContacts(p)
    \/ TrackerAnswers
    \/ RouteResponse
    \/ ToolPoll
    \/ ToolReturn

SpecTool == Init /\ [][NextTool]_vars

\* ---------------------------------------------------------- PersonSimulator
\* random.randint(a, b): both ends included.
RandInt(a, b) == a..b

\* directions of move_randomly.
Directions ==
    {<<0, 1>>, <<1, 0>>, <<0, -1>>, <<-1, 0>>, <<1, 1>>, <<1, -1>>, <<-1, 1>>, <<-1, -1>>}

Least(a, b) == IF a <= b THEN a ELSE b

Greatest(a, b) == IF a >= b THEN a ELSE b

\* The coordinate kept below the board's upper edge only.
ClampAbove(board_size, v) == Least(board_size - 1, v)

\* max(0, min(self.board_size-1, v)) of move_randomly.
Clamp(board_size, v) == Greatest(0, Least(board_size - 1, v))

\* PersonSimulator.publish_position: the message carries self.position; if
\* basic_publish raises, the except clause logs it and nothing is published.
PublishPosition(state, ok) ==
    IF ok THEN [state EXCEPT !.sent = state.position, !.failed = FALSE]
    ELSE [state EXCEPT !.failed = TRUE]

\* PersonSimulator.__init__ with the default board_size.
SimInit ==
    /\ ~sim.alive
    /\ \E x \in RandInt(0, BoardSize - 1) : \E y \in RandInt(0, BoardSize - 1) :
       \E ok \in BOOLEAN :
          sim' = PublishPosition([NoSim EXCEPT !.alive = TRUE, !.position = <<x, y>>], ok)
    /\ UNCHANGED <<positions, order, contact_history, now, published, appended, last,
                   pc, loc, handed, tool>>

\* PersonSimulator.move_randomly.
MoveRandomly ==
    /\ sim.alive
    /\ \E d \in Directions : \E ok \in BOOLEAN :
          LET new_x == Clamp(BoardSize, sim.position[1] + d[1])
              new_y == Clamp(BoardSize, sim.position[2] + d[2])
          IN  sim' = PublishPosition([sim EXCEPT !.position = <<new_x, new_y>>,
                                                 !.before = sim.position,
                                                 !.dir = d], ok)
    /\ UNCHANGED <<positions, order, contact_history, now, published, appended, last,
                   pc, loc, handed, tool>>

NextSim == SimInit \/ MoveRandomly

SpecSim == Init /\ [][NextSim]_vars

\* ------------------------------------------------------------- properties
\* The last n elements of a sequence.
LastN(seq, n) ==
    IF Len(seq) <= n THEN seq ELSE SubSeq(seq, Len(seq) - n + 1, Len(seq))

\* The events the step appended to p's history.
NewEvents(p) == SubSeq(appended'[p], Len(appended[p]) + 1, Len(appended'[p]))

\* The step only added to the record of p's appended events.
Extends(p) ==
    /\ Len(appended'[p]) >= Len(appended[p])
    /\ SubSeq(appended'[p], 1, Len(appended[p])) = appended[p]

\* The other persons whose stored position is cell.
CoLocated(pos, person_id, cell) ==
    {b \in DOMAIN pos \ {person_id} : pos[b] = cell}

\* The number of events of a sequence that name person b.
Naming(seq, b) == Cardinality({i \in 1..Len(seq) : seq[i].person = b})

\* C1: after any sequence of update_contact_history calls and position-update
\* deliveries, every person's history holds at most max_history events.
C1_HistoryBounded ==
    \A p \in DOMAIN contact_history : Len(contact_history[p]) <= MaxHistory

\* C1's case: a history is full and has lost an event, after direct calls
\* and deliveries both.
C1_Witness ==
    \E p \in DOMAIN contact_history :
        /\ Len(contact_history[p]) = MaxHistory
        /\ Len(appended[p]) > MaxHistory
        /\ \E i \in 1..Len(appended[p]) : appended[p][i] \in ApiEvents
        /\ \E i \in 1..Len(appended[p]) : appended[p][i] \notin ApiEvents

\* C2: after n appends to a person's history, the history is the last
\* min(n, max_history) appended events, in the order of the calls.
C2_HistoryIsLastAppended ==
    \A p \in Persons :
        History(contact_history, p) = LastN(appended[p], MaxHistory)

\* C2's case: more than max_history events were appended to a history, the
\* evicted one differing from the ones kept.
C2_Witness ==
    \E p \in Persons :
        /\ Len(appended[p]) = MaxHistory + 1
        /\ \A i \in 2..Len(appended[p]) : appended[p][i] # appended[p][1]
        /\ appended[p][2] # appended[p][3]

\* C3: check_contacts(a, c) appends, for each other person b stored at c,
\* one event naming b to a's history and one event naming a to b's history,
\* and leaves every other person's history as it was.
C3_ScanRecordsEachPeerOnce ==
    [][last'.op = "check" =>
        LET a == last'.person
            c == last'.cell
            peers == CoLocated(positions, a, c)
        IN  /\ \A p \in Persons :
                /\ Extends(p)
                /\ History(contact_history', p)
                       = LastN(History(contact_history, p) \o NewEvents(p), MaxHistory)
            /\ Len(NewEvents(a)) = Cardinality(peers)
            /\ \A b \in peers :
                /\ Naming(NewEvents(a), b) = 1
                /\ Len(NewEvents(b)) = 1
                /\ NewEvents(b)[1].person = a
                /\ NewEvents(b)[1].position = c
            /\ \A i \in 1..Len(NewEvents(a)) : NewEvents(a)[i].position = c
            /\ \A b \in Persons \ (peers \cup {a}) :
                /\ NewEvents(b) = <<>>
                /\ History(contact_history', b) = History(contact_history, b)
                /\ (b \in DOMAIN contact_history') = (b \in DOMAIN contact_history)
    ]_vars

\* C3's case: a scan that found a peer while a third person, with a history
\* of its own, stood elsewhere.
C3_Witness ==
    /\ last.op = "check"
    /\ CoLocated(positions, last.person, last.cell) # {}
    /\ appended[last.person] # <<>>
    /\ \E d \in DOMAIN positions \ {last.person} :
        /\ positions[d] # last.cell
        /\ History(contact_history, d) # <<>>

\* C4: a position update that reports the position already stored for the
\* person appends no event to any history.
C4_RepublishAddsNothing ==
    [][(/\ last'.op = "position"
        /\ last'.outcome = "ok"
        /\ Get(positions, last'.person, None) = last'.cell)
       => /\ contact_history' = contact_history
          /\ appended' = appended
    ]_vars

\* C4's case: a person re-reported its position while another person stood on
\* the same cell.
C4_Witness ==
    /\ last.op = "position"
    /\ last.outcome = "ok"
    /\ last.old = last.cell
    /\ CoLocated(positions, last.person, last.cell) # {}

\* C5: the first position update of an unseen person records a contact with
\* every person stored at the reported cell, in both histories.
C5_FirstReportScans ==
    [][(/\ last'.op = "position"
        /\ last'.outcome = "ok"
        /\ last'.person \notin DOMAIN positions)
       => \A b \in CoLocated(positions, last'.person, last'.cell) :
            /\ Naming(NewEvents(last'.person), b) = 1
            /\ Len(NewEvents(b)) = 1
            /\ NewEvents(b)[1].person = last'.person
            /\ NewEvents(b)[1].position = last'.cell
            /\ History(contact_history', b) # <<>>
            /\ contact_history'[b][Len(contact_history'[b])] = NewEvents(b)[1]
            /\ History(contact_history', last'.person)
                   = LastN(NewEvents(last'.person), MaxHistory)
    ]_vars

\* C5's case: an unseen person's first report landed on an occupied cell.
C5_Witness ==
    /\ last.op = "position"
    /\ last.outcome = "ok"
    /\ last.old = None
    /\ CoLocated(positions, last.person, last.cell) # {}
    /\ appended[last.person] # <<>>

\* No thread is inside a callback.
AllIdle == \A t \in Threads : pc[t] = "idle"

\* C6: when distinct persons are each handed one position update onto the
\* same cell and the callbacks run concurrently, every pair of them ends with
\* exactly one event naming the other in each of the two histories.
C6_OneMutualContactPerPair ==
    AllIdle =>
        \A a \in DOMAIN positions : \A b \in DOMAIN positions \ {a} :
            (/\ handed.updates[a] = 1
             /\ handed.updates[b] = 1
             /\ positions[a] = positions[b])
            => /\ Naming(History(contact_history, a), b) = 1
               /\ Naming(History(contact_history, b), a) = 1

\* Thread u has appended some of the events of its scan, and the event for
\* person r is still to come.
PartlyWritten(u, r) ==
    /\ pc[u] \in {"len", "pop", "app"}
    /\ loc[u].k > 1 \/ loc[u].dir = "rev"
    /\ \/ loc[u].contacts[loc[u].k].person = r
       \/ loc[u].person_id = r /\ loc[u].k < Len(loc[u].contacts)

\* C7: a position update is atomic to queries: no query reads a person's
\* history while an update has written only part of its contact events,
\* that person's among the missing ones.
C7_UpdateAtomicToQueries ==
    [][\A t \in Threads :
        (pc[t] # "q_pub" /\ pc'[t] = "q_pub")
        => ~\E u \in Threads \ {t} : PartlyWritten(u, loc'[t].q.person_id)
    ]_vars

\* C8: concurrent appends to one person's history leave it uncorrupted: it
\* holds at most max_history events, and they are the latest appended ones.
C8_SharedHistorySerialized ==
    \A p \in DOMAIN contact_history :
        /\ Len(contact_history[p]) <= MaxHistory
        /\ contact_history[p] = LastN(appended[p], Len(contact_history[p]))

\* C9: a query for a person without recorded contacts, seen or not, gets a
\* response that names the person and holds an empty contacts list.
C9_EmptyHistoryAnswered ==
    [][\A q \in Queries :
        (/\ q.utf8
         /\ History(contact_history, q.person_id) = <<>>
         /\ published = <<>>
         /\ last'.op = "query"
         /\ last'.person = q.person_id)
        => /\ Len(published') = 1
           /\ published'[1].body.person_id = q.person_id
           /\ published'[1].body.contacts = <<>>
           /\ last'.outcome = "ok"
    ]_vars

\* C9's case: a query for a person the tracker never saw was answered.
C9_Witness ==
    /\ last.op = "query"
    /\ last.person \in Persons \ DOMAIN positions
    /\ positions # <<>>
    /\ published # <<>>
    /\ published[1].body.person_id = last.person
    /\ published[1].body.contacts = <<>>

C11_AppliedInDeliveryOrder ==
    [][/\ \A body \in ValidBodies :
            HandlePositionUpdate(body) =>
                LET a == body.person_id
                    c == <<body.x, body.y>>
                IN  /\ a \in DOMAIN positions'
                    /\ positions'[a] = c
                    /\ \A p \in Persons : \A i \in 1..Len(NewEvents(p)) :
                            /\ NewEvents(p)[i].position = c
                            /\ p = a \/ NewEvents(p)[i].person = a
                    /\ IF Get(positions, a, None) # c
                       THEN \A b \in CoLocated(positions', a, c) :
                                /\ Naming(NewEvents(a), b) = 1
                                /\ Naming(NewEvents(b), a) = 1
                       ELSE \A p \in Persons : NewEvents(p) = <<>>
       /\ \A a \in DOMAIN positions :
            positions'[a] # positions[a]
            => \E body \in ValidBodies :
                    /\ body.person_id = a
                    /\ positions'[a] = <<body.x, body.y>>
                    /\ HandlePositionUpdate(body)
    ]_vars

\* C11's case: a second, different position was delivered for a person, and
\* each of its two deliveries scanned and found a peer.
C11_Witness ==
    /\ last.op = "position"
    /\ last.outcome = "ok"
    /\ last.old \notin {None, last.cell}
    /\ positions[last.person] = last.cell
    /\ Len(appended[last.person]) = 2
    /\ appended[last.person][1].position = last.old
    /\ appended[last.person][2].position = last.cell

\* C12: a well-formed position update stores the reported position for its
\* person, moved or not, and leaves every other person's position as it was;
\* no delivery, query or routed response removes a person from the map.
C12_OverwriteAndFrame ==
    [][/\ DOMAIN positions \subseteq DOMAIN positions'
       /\ \A body \in ValidBodies :
            HandlePositionUpdate(body) =>
                /\ DOMAIN positions' = DOMAIN positions \cup {body.person_id}
                /\ positions'[body.person_id] = <<body.x, body.y>>
                /\ \A b \in DOMAIN positions \ {body.person_id} :
                        positions'[b] = positions[b]
       /\ (last'.op # "position" \/ last'.outcome # "ok") => positions' = positions
    ]_vars

\* C12's case: a person re-reported the position it had while the map held
\* all the persons, one of them on another cell.
C12_Witness ==
    /\ last.op = "position"
    /\ last.outcome = "ok"
    /\ last.old = last.cell
    /\ DOMAIN positions = Persons
    /\ \E b \in Persons : positions[b] # last.cell

\* Both coordinates of a cell lie in [0, board_size).
OnBoard(cell) ==
    /\ 0 <= cell[1] /\ cell[1] < BoardSize
    /\ 0 <= cell[2] /\ cell[2] < BoardSize

\* C13: every position the position map holds, and the position of every
\* recorded contact event, has both coordinates in [0, board_size), whatever
\* position updates are delivered.
C13_PositionsOnBoard ==
    /\ \A p \in DOMAIN positions : OnBoard(positions[p])
    /\ \A p \in DOMAIN contact_history : \A i \in 1..Len(contact_history[p]) :
            OnBoard(contact_history[p][i].position)

\* C14: no person's history ever holds an event that names that same person,
\* among the events it holds and among those it has lost.
C14_NoSelfContact ==
    /\ \A p \in DOMAIN contact_history : \A i \in 1..Len(contact_history[p]) :
            contact_history[p][i].person # p
    /\ \A p \in Persons : \A i \in 1..Len(appended[p]) : appended[p][i].person # p

\* C14's case: a person came back to a cell where it had a contact before
\* and found a peer there again, its own entry being in the map it scanned.
C14_Witness ==
    /\ last.op = "position"
    /\ last.outcome = "ok"
    /\ last.old \notin {None, last.cell}
    /\ CoLocated(positions, last.person, last.cell) # {}
    /\ Len(appended[last.person]) >= 2
    /\ appended[last.person][1].position = last.cell
    /\ appended[last.person][Len(appended[last.person])].position = last.cell

\* The number of events of a sequence that name person b at cell c.
NamingAt(seq, b, c) ==
    Cardinality({i \in 1..Len(seq) : seq[i].person = b /\ seq[i].position = c})

\* C15: one delivery appends an event naming b at cell c to a's history exactly
\* when it appends an event naming a at c to b's history; and while neither
\* history has lost an event, a's history names b as often as b's names a.
C15_ContactsSymmetric ==
    [][\A a \in Persons : \A b \in Persons \ {a} :
        /\ \A c \in Cells : NamingAt(NewEvents(a), b, c) = NamingAt(NewEvents(b), a, c)
        /\ (Len(appended'[a]) <= MaxHistory /\ Len(appended'[b]) <= MaxHistory)
           => Naming(History(contact_history', a), b)
                  = Naming(History(contact_history', b), a)
    ]_vars

\* C15's case: a delivery found two peers on the cell, who had met each other
\* before, and no history has lost an event.
C15_Witness ==
    /\ last.op = "position"
    /\ last.outcome = "ok"
    /\ last.old # last.cell
    /\ Cardinality(CoLocated(positions, last.person, last.cell)) = 2
    /\ Len(appended[last.person]) = 2
    /\ \A p \in Persons : Len(appended[p]) <= MaxHistory
    /\ \E b \in Persons \ {last.person} :
            /\ Len(appended[b]) = 2
            /\ Naming(History(contact_history, b), last.person) = 1

\* C16: when an event naming b at cell c is appended to a's history, the
\* position map holds c for a and for b: no contact is recorded between persons
\* stored on different cells.
C16_ContactsSound ==
    [][\A a \in Persons : \A i \in 1..Len(NewEvents(a)) :
        LET b == NewEvents(a)[i].person
            c == NewEvents(a)[i].position
        IN  /\ a \in DOMAIN positions' /\ positions'[a] = c
            /\ b \in DOMAIN positions' /\ positions'[b] = c
    ]_vars

\* C16's case: a delivery found a peer on its cell while a third person,
\* known to the tracker and never in a contact, stood on another cell.
C16_Witness ==
    /\ last.op = "position"
    /\ last.outcome = "ok"
    /\ last.old # last.cell
    /\ Cardinality(CoLocated(positions, last.person, last.cell)) = 1
    /\ \E d \in DOMAIN positions :
            /\ positions[d] # last.cell
            /\ appended[d] = <<>>
    /\ appended[last.person] # <<>>

\* C17: every history is ordered oldest to newest: the time stamps of its
\* events do not decrease from head to tail, after any sequence and any
\* interleaving of position updates, the clock never going back.
C17_HistoryOrderedByTime ==
    \A p \in DOMAIN contact_history :
        \A i \in 1..Len(contact_history[p]) : \A j \in i..Len(contact_history[p]) :
            contact_history[p][i].time <= contact_history[p][j].time

\* The step left the history of person b as it was: its events, and whether
\* there is a deque for b at all.
SameHistory(b) ==
    /\ (b \in DOMAIN contact_history') = (b \in DOMAIN contact_history)
    /\ History(contact_history', b) = History(contact_history, b)
    /\ appended'[b] = appended[b]

\* C18: histories are independent per person: an append to a's history, with
\* or without an eviction, leaves every other history as it was, and a position
\* update for a changes only the histories of a and of the persons stored on
\* a's new cell.
C18_HistoriesIndependent ==
    [][/\ last'.op = "append" =>
            \A b \in Persons \ {last'.person} : SameHistory(b)
       /\ \A body \in ValidBodies :
            HandlePositionUpdate(body) =>
                \A b \in Persons \ ({body.person_id} \cup
                        CoLocated(positions', body.person_id, <<body.x, body.y>>)) :
                    SameHistory(b)
    ]_vars

\* C18's case: an append evicted the oldest event of a history while another
\* person's history was full.
C18_Witness ==
    /\ last.op = "append"
    /\ Len(appended[last.person]) > MaxHistory
    /\ \E b \in Persons \ {last.person} :
            Len(History(contact_history, b)) = MaxHistory

\* C19: the contacts list of a query response is the queried person's history
\* as it stands: the events appended to it and not evicted, each with its
\* person, position and time, oldest first; and handling a query changes
\* neither the position map nor any history.
C19_ResponseIsHistory ==
    [][\A q \in Queries :
        HandleQuery(q) =>
            /\ positions' = positions
            /\ order' = order
            /\ contact_history' = contact_history
            /\ appended' = appended
            /\ q.utf8 =>
                LET response == published'[Len(published')]
                IN  /\ Len(published') = Len(published) + 1
                    /\ response.body.person_id = q.person_id
                    /\ response.body.contacts = History(contact_history, q.person_id)
                    /\ response.body.contacts = LastN(appended[q.person_id], MaxHistory)
    ]_vars

\* C19's case: a query was answered for a person whose history is full, has
\* lost an event, and holds two different events.
C19_Witness ==
    /\ last.op = "query"
    /\ last.outcome = "ok"
    /\ published # <<>>
    /\ published[1].body.person_id = last.person
    /\ Len(published[1].body.contacts) = MaxHistory
    /\ Len(appended[last.person]) > MaxHistory
    /\ published[1].body.contacts[1] # published[1].body.contacts[MaxHistory]

\* C20: the code's append (a full history loses its head, then the event is
\* appended) leaves the same history as the append of the design (the event
\* is appended, then heads are removed until the length is maxHistory), for
\* every history no longer than max_history and every max_history >= 1, and
\* removes at most one head per call.
C20_AppendRefinesDesign ==
    [][last'.op = "append" =>
        LET p == last'.person
            d == History(contact_history, p)
        IN  /\ Len(NewEvents(p)) = 1
            /\ LET e == NewEvents(p)[1]
               IN  /\ contact_history'[p] = PopThenAppend(d, e, MaxHistory).deque
                   /\ \A m \in 1..(MaxHistory + 1) :
                        Len(d) <= m =>
                            /\ PopThenAppend(d, e, m).deque = AppendThenTrim(d, e, m).deque
                            /\ PopThenAppend(d, e, m).pops = AppendThenTrim(d, e, m).pops
                            /\ PopThenAppend(d, e, m).pops <= 1
    ]_vars

\* C20's case: an append to a full history whose head differed from the
\* event behind it, so that the history left tells which one was removed.
C20_Witness ==
    /\ last.op = "append"
    /\ Len(appended[last.person]) = MaxHistory + 1
    /\ appended[last.person][1] # appended[last.person][2]
    /\ Len(contact_history[last.person]) = MaxHistory

\* C21: a person's history entry comes to exist only in a step that records
\* a contact involving the person: a position update that finds nobody on the
\* cell and a query, also one for that person, create no entry; and an entry
\* that exists is never removed.
C21_HistoryEntriesLazy ==
    [][/\ DOMAIN contact_history \subseteq DOMAIN contact_history'
       /\ \A p \in DOMAIN contact_history' \ DOMAIN contact_history :
            /\ last'.op = "position"
            /\ NewEvents(p) # <<>>
            /\ contact_history'[p] # <<>>
       /\ last'.op = "query" => DOMAIN contact_history' = DOMAIN contact_history
       /\ (/\ last'.op = "position"
           /\ \/ last'.outcome = "dropped"
              \/ CoLocated(positions', last'.person, last'.cell) = {})
          => DOMAIN contact_history' = DOMAIN contact_history
    ]_vars

\* C21's case: a query was answered for a person the tracker holds a position
\* of but no history entry, while other persons have entries.
C21_Witness ==
    /\ last.op = "query"
    /\ last.outcome = "ok"
    /\ last.person \in DOMAIN positions
    /\ last.person \notin DOMAIN contact_history
    /\ contact_history # <<>>
    /\ published # <<>>

\* C23: the response the tracker publishes for a query carries the request's
\* correlation id and is routed to the request's reply_to queue; the tracker
\* publishes no message but such a response to a query it handles.
C23_ResponseToRequester ==
    [][/\ \A q \in Queries :
            (q.utf8 /\ HandleQuery(q)) =>
                /\ Len(published') = Len(published) + 1
                /\ published'[Len(published')].routing_key = q.reply_to
                /\ published'[Len(published')].correlation_id = q.correlation_id
       /\ Len(published') > Len(published) =>
            \E q \in Queries : q.utf8 /\ HandleQuery(q)
    ]_vars

\* C23's case: the tracker, holding contacts, answered a request of the second
\* requester.
C23_Witness ==
    /\ last.op = "query"
    /\ last.outcome = "ok"
    /\ published # <<>>
    /\ published[1].routing_key = "q2"
    /\ published[1].correlation_id = "c2"
    /\ published[1].body.contacts # <<>>

\* C22, as claimed: every delivered query runs to completion with exactly
\* one response published: the handler of a delivered query does not end
\* before it has published one response.
C22_EveryQueryAnswered ==
    [][/\ handed.queries' > handed.queries => pc'[Consumer] # "idle"
       /\ (pc[Consumer] \in {"q_iter", "q_pub"} /\ pc'[Consumer] = "idle")
           => Len(published') = Len(published) + 1
    ]_vars

\* C22, amended: every delivered position update and query is handled to the
\* end of its handler. The handler terminates; the scan takes the entries of
\* the position map one per turn and ends behind the last one; a handler
\* returns only from its last statement, never through its except clause
\* part-way; a query whose body decodes gets exactly one response, published
\* by its handler's last statement; and a delivery whose body cannot be taken
\* apart is dropped at the first statement, a query among them with no
\* response.
C22_HandledToTheEnd ==
    /\ [][/\ (pc[Consumer] = "scan" /\ pc'[Consumer] = "scan")
              => loc'[Consumer].it = loc[Consumer].it + 1
          /\ (pc[Consumer] = "scan" /\ pc'[Consumer] # "scan")
              => /\ Len(order) = loc[Consumer].size
                 /\ loc[Consumer].it = Len(order) + 1
          /\ (pc[Consumer] # "idle" /\ pc'[Consumer] = "idle")
              => \/ /\ pc[Consumer] = "set_pos"
                    /\ loc[Consumer].old_pos = loc[Consumer].cell
                 \/ /\ pc[Consumer] = "scan"
                    /\ loc[Consumer].contacts = <<>>
                 \/ /\ pc[Consumer] = "app"
                    /\ loc[Consumer].dir = "rev"
                    /\ loc[Consumer].k = Len(loc[Consumer].contacts)
                 \/ /\ pc[Consumer] = "q_pub"
                    /\ Len(published') = Len(published) + 1
                    /\ published'[Len(published')].body.person_id
                           = loc[Consumer].q.person_id
          /\ pc[Consumer] \notin {"q_pub", "idle"} => published' = published
          /\ pc[Consumer] = "idle" => Len(published') <= Len(published)
          /\ handed.queries' > handed.queries
              => \/ pc'[Consumer] \in {"q_iter", "q_pub"}
                 \/ pc'[Consumer] = "idle" /\ last'.outcome = "dropped"
          ]_vars
    /\ (pc[Consumer] # "idle") ~> (pc[Consumer] = "idle")

\* C22's case: the consumer is back in no callback after updates whose scans
\* found a peer and filled a history past its bound, a query answered with
\* contacts, and a malformed update dropped.
C22_Witness ==
    /\ pc[Consumer] = "idle"
    /\ handed.queries = 1
    /\ Len(published) = 1
    /\ published[1].body.contacts # <<>>
    /\ \E p \in Persons : Len(appended[p]) > MaxHistory
    /\ last.op = "position"
    /\ last.outcome = "dropped"
    /\ positions # <<>>


\* The messages on_response was given in the call that carry the correlation
\* id of the call's request.
Matching == {i \in DOMAIN tool.got : tool.got[i].correlation_id = tool.corr_id}

\* C24: query_contacts returns a response only if a message with the
\* correlation id of the current request arrived on the callback queue, and
\* then it returns the body of such a message; a message with another
\* correlation id, such as the late response to an earlier query, is never
\* what it returns; without a matching message it returns None, once the
\* timeout has passed.
C24_OnlyMatchingResponse ==
    [][ /\ tool'.response # tool.response /\ tool'.response # None
          => \E i \in DOMAIN tool'.got :
                /\ i > Len(tool.got)
                /\ tool'.got[i].correlation_id = tool'.corr_id
                /\ tool'.got[i].body = tool'.response
        /\ tool.pc = "waiting" /\ tool'.pc = "idle"
          => /\ tool'.result # None
                => \E i \in Matching : tool.got[i].body = tool'.result
             /\ tool'.result # None
                => /\ tool.taken.correlation_id = tool.corr_id
                   /\ tool.taken.body = tool'.result
             /\ Matching = {}
                => /\ tool'.result = None
                   /\ tool'.clock - tool.start_time >= Timeout
      ]_vars

\* C24 witness: the second call returned the response to its request, after
\* on_response was given the late response to the first call, which had
\* returned None on its timeout.
C24_Witness ==
    /\ tool.pc = "idle"
    /\ tool.calls = 2
    /\ tool.result # None
    /\ tool.result.person_id = tool.person
    /\ \E i \in DOMAIN tool.got :
          /\ tool.got[i].correlation_id # tool.corr_id
          /\ tool.got[i].body.person_id # tool.person


\* The distance between two coordinates.
Dist(a, b) == IF a >= b THEN a - b ELSE b - a

\* C25: a PersonSimulator's position has both coordinates in
\* [0, board_size) after its construction and after every move_randomly, a
\* move changes each coordinate by at most 1, and the position a publish
\* sends is the current position.
C25_SimulatorOnBoard ==
    [][ sim'.alive
          => /\ sim'.position[1] \in 0..(BoardSize - 1)
             /\ sim'.position[2] \in 0..(BoardSize - 1)
             /\ sim.alive
                => /\ Dist(sim'.position[1], sim.position[1]) <= 1
                   /\ Dist(sim'.position[2], sim.position[2]) <= 1
             /\ ~sim'.failed => sim'.sent = sim'.position
      ]_vars

\* C25 witness: a move drawn towards the outside of the corner <<0, 0>> left
\* the simulator on it, and the position was published.
C25_Witness ==
    /\ sim.alive
    /\ sim.before = <<0, 0>>
    /\ sim.dir = <<-1, -1>>
    /\ sim.position = <<0, 0>>
    /\ sim.sent = <<0, 0>>
    /\ ~sim.failed

====
